---- MODULE Spec2Model ----
(***************************************************************************)
(* Knative topology data transformation (knative-topology-utils):          *)
(* the graph assembler transformKnNodeData with its node and edge          *)
(* factories, and the mutation operations that create sinks, triggers and  *)
(* subscriptions.                                                          *)
(*                                                                         *)
(* Strings are TLA+ strings; an id "<source>_<target>" is built by string  *)
(* concatenation as the template literal does.  A sink URI is a sequence   *)
(* of one-character strings so that encodeURIComponent can be computed     *)
(* character by character; the empty sequence stands for an absent URI.    *)
(***************************************************************************)
EXTENDS Integers, Sequences, FiniteSets, TLC

VARIABLES
    resources,       \* the TopologyDataResources snapshot (category -> list)
    nodeType,        \* the `type` argument of transformKnNodeData
    knResourcesData, \* the `knResourcesData` argument
    pc,              \* position of the assembler: "call", "loop", "done", "off"
    idx,             \* index of the next element of the _.forEach
    knDataModel,     \* the local Model {nodes, edges} being built
    run,             \* which call of transformKnNodeData this is (1 or 2)
    firstModel,      \* the Model returned by the first call
    mop,             \* mutation operation invoked ("none" before any call)
    msource,         \* its first argument
    mtarget,         \* its second argument
    mpc,             \* position of the operation: "idle", "create", "update", "settled", "off"
    apiOutcome,      \* how the issued API promise settled: "none", "resolved", "rejected"
    apiCalls,        \* calls issued to the API client (k8sCreate / k8sUpdate)
    notifications,   \* errorModal calls
    outcome,         \* the returned promise: its state and the value it settled with
    fnCall,          \* the function of the resolver / rollup builder applied, with its arguments
    fnResult         \* what that application returned

graphVars == <<resources, nodeType, knResourcesData, pc, idx, knDataModel, run, firstModel>>
mutVars == <<mop, msource, mtarget, mpc, apiOutcome, apiCalls, notifications, outcome>>
fnVars == <<fnCall, fnResult>>
vars == <<graphVars, mutVars, fnVars>>

-----------------------------------------------------------------------------
(* Bounds of the model *)

\* longest status.traffic list of a service
MaxTraffic == 2
\* most event sources in one snapshot
MaxSources == 2
\* most triggers, and most subscriptions, in one snapshot
MaxBindings == 2
\* most candidates handed to getParentResource
MaxCandidates == 2
MaxEnrichers == 2

-----------------------------------------------------------------------------
(* enum NodeType / enum EdgeType *)

NodeTypeEventSource == "event-source"
NodeTypeKnService == "knative-service"
NodeTypeRevision == "knative-revision"
NodeTypePubSub == "event-pubsub"
NodeTypeSinkUri == "sink-uri"
TypeApplicationGroup == "part-of"

EdgeTypeTraffic == "revision-traffic"
EdgeTypeEventSource == "event-source-link"
EdgeTypeEventPubSubLink == "event-pubsub-link"

EventingBrokerKind == "Broker"

-----------------------------------------------------------------------------
(* Resources (K8sResourceKind).  One record shape for every kind; a field  *)
(* a kind does not carry is "" / {} / <<>>, which is how the code sees an   *)
(* absent field (undefined is falsy, _.forEach(undefined) does nothing).   *)

MkRes(kind, uid, name, owners, app) ==
    [kind |-> kind, uid |-> uid, name |-> name, owners |-> owners, app |-> app,
     traffic |-> <<>>, sinkUri |-> <<>>, sinkRef |-> "",
     broker |-> "", channel |-> "", subscriber |-> "", nodeType |-> ""]

\* the value of a failed lookup (undefined)
Undefined == MkRes("undefined", "", "", {}, "")

\* _.find(list, predicate): the first match, or undefined
Find(list, Test(_)) ==
    LET hits == SelectSeq(list, Test)
    IN IF hits = <<>> THEN Undefined ELSE hits[1]

\* the set of elements of a sequence
Range(s) == {s[i] : i \in 1..Len(s)}

\* all sequences over S of length at most n
SeqsUpTo(S, n) == UNION {[1..k -> S] : k \in 0..n}

\* getOwnedResources(parent, candidates): the candidates owned by parent, in order
GetOwnedResources(parent, candidates) ==
    IF parent.uid = "" THEN <<>>
    ELSE SelectSeq(candidates, LAMBDA c: parent.uid \in c.owners)

-----------------------------------------------------------------------------
(* Node factory *)

\* getTopologyNodeItem: a node for a resource; sinkUri is data.data.sinkUri
GetTopologyNodeItem(resource, type, children) ==
    [id |-> resource.uid, type |-> type, resource |-> resource.uid,
     sinkUri |-> <<>>, children |-> children,
     group |-> (type = NodeTypeKnService)]

\* filterRevisionsBaseOnTrafficStatus: one revision per traffic entry that
\* names a revision of the list, in traffic order
RECURSIVE FilterRevisionsBaseOnTrafficStatus(_, _)
FilterRevisionsBaseOnTrafficStatus(resource, revisions) ==
    IF resource.traffic = <<>> THEN <<>>
    ELSE LET n == Len(resource.traffic)
             curr == resource.traffic[n]
             acc == FilterRevisionsBaseOnTrafficStatus(
                        [resource EXCEPT !.traffic = SubSeq(resource.traffic, 1, n - 1)],
                        revisions)
             el == Find(revisions, LAMBDA rev: curr.revisionName = rev.name)
         IN IF el # Undefined THEN Append(acc, el) ELSE acc

\* the revisions a service node lists as children: those owned by the
\* service's first configuration
ChildData(resource, res) ==
    LET configurations == GetOwnedResources(resource, res.configurations)
        configUidData == IF configurations = <<>> THEN "" ELSE configurations[1].uid
    IN SelectSeq(res.revisions, LAMBDA r: configUidData # "" /\ configUidData \in r.owners)

\* a variant that lists every owned revision as a child but makes nodes
\* only for those in traffic
GetKnativeTopologyNodeItemsAllChildren(resource, type, res) ==
    LET kept == IF type = NodeTypeKnService
                THEN FilterRevisionsBaseOnTrafficStatus(resource, ChildData(resource, res))
                ELSE <<>>
        all == IF type = NodeTypeKnService THEN ChildData(resource, res) ELSE <<>>
        revNodes == [i \in 1..Len(kept) |->
                        GetTopologyNodeItem(kept[i], NodeTypeRevision, <<>>)]
        children == [i \in 1..Len(all) |-> all[i].uid]
    IN Append(revNodes, GetTopologyNodeItem(resource, type, children))

\* getKnativeTopologyNodeItems: the revision child nodes (service type only)
\* followed by the resource's own node
GetKnativeTopologyNodeItems(resource, type, res) ==
    LET kept == IF type = NodeTypeKnService
                THEN FilterRevisionsBaseOnTrafficStatus(resource, ChildData(resource, res))
                ELSE <<>>
        revNodes == [i \in 1..Len(kept) |->
                        GetTopologyNodeItem(kept[i], NodeTypeRevision, <<>>)]
        children == [i \in 1..Len(kept) |-> kept[i].uid]
    IN Append(revNodes, GetTopologyNodeItem(resource, type, children))

\* getSinkUriTopologyNodeItems: the synthetic node of an external sink URI
GetSinkUriTopologyNodeItems(type, id, sinkUri) ==
    << [id |-> id, type |-> type, resource |-> id,
        sinkUri |-> sinkUri, children |-> <<>>, group |-> FALSE] >>

\* a lookup that never finds an existing sink-uri node
GetSinkTargetUidNoReuse(nodeData, sinkUri) == ""

\* getSinkTargetUid: id of the first node whose data.data.sinkUri is the URI
GetSinkTargetUid(nodeData, sinkUri) ==
    LET hits == SelectSeq(nodeData, LAMBDA n: sinkUri = n.sinkUri)
    IN IF hits = <<>> THEN "" ELSE hits[1].id

\* an escaping that leaves every character as it is
EncodeCharIdentity(c) == c

\* encodeURIComponent on one character: unreserved characters are kept,
\* the others become their percent-escaped UTF-8 code
EncodeChar(c) ==
    CASE c = ":" -> "%3A"
      [] c = "/" -> "%2F"
      [] c = "%" -> "%25"
      [] c = " " -> "%20"
      [] c = "?" -> "%3F"
      [] c = "=" -> "%3D"
      [] OTHER -> c

\* encodeURIComponent
RECURSIVE EncodeURIComponent(_)
EncodeURIComponent(uri) ==
    IF uri = <<>> THEN ""
    ELSE EncodeChar(Head(uri)) \o EncodeURIComponent(Tail(uri))

\* getTopologyGroupItems: the application group of a resource carrying the
\* part-of label, or Undefined (kind "undefined") when it carries none
GetTopologyGroupItems(res) ==
    IF res.app = "" THEN [id |-> "", type |-> "undefined", resource |-> "",
                          sinkUri |-> <<>>, children |-> <<>>, group |-> FALSE]
    ELSE [id |-> "group:" \o res.app, type |-> TypeApplicationGroup, resource |-> "",
          sinkUri |-> <<>>, children |-> <<res.uid>>, group |-> TRUE]

\* mergeGroup: add the group to the nodes, or its children to the group
\* of the same id that is already there
MergeGroup(newGroup, existingGroups) ==
    IF newGroup.type = "undefined" THEN existingGroups
    ELSE LET hits == {i \in 1..Len(existingGroups) :
                        existingGroups[i].group /\ existingGroups[i].id = newGroup.id}
         IN IF hits = {} THEN Append(existingGroups, newGroup)
            ELSE LET g == CHOOSE i \in hits : \A j \in hits : i <= j
                     add == SelectSeq(newGroup.children,
                                LAMBDA c: c \notin Range(existingGroups[g].children))
                 IN [existingGroups EXCEPT ![g].children = @ \o add]

-----------------------------------------------------------------------------
(* Edge factory *)

NoData == [kind |-> "none"]

\* getSinkUriTopologyEdgeItems
GetSinkUriTopologyEdgeItems(resource, targetUid) ==
    IF resource.sinkUri # <<>> /\ resource.uid # ""
    THEN << [id |-> resource.uid \o "_" \o targetUid, type |-> EdgeTypeEventSource,
             source |-> resource.uid, target |-> targetUid, data |-> NoData] >>
    ELSE <<>>

\* getEventTopologyEdgeItems: an edge to every resource of `data` whose name
\* is the name of the sink reference (spec.sink.ref || spec.sink)
GetEventTopologyEdgeItems(resource, data) ==
    LET hits == SelectSeq(data, LAMBDA r: resource.sinkRef # "" /\ r.name = resource.sinkRef)
    IN [i \in 1..Len(hits) |->
          [id |-> resource.uid \o "_" \o hits[i].uid, type |-> EdgeTypeEventSource,
           source |-> resource.uid, target |-> hits[i].uid, data |-> NoData]]

\* left fold of a step over a list, as _.forEach with an accumulating array
RECURSIVE ForEach(_, _, _)
ForEach(list, Step(_, _), acc) ==
    IF list = <<>> THEN acc
    ELSE ForEach(Tail(list), Step, Step(acc, Head(list)))

\* one trigger of getTriggerTopologyEdgeItems
TriggerEdgeStep(edges, broker, trigger, res) ==
    LET knativeService == Find(res.ksservices,
                               LAMBDA s: trigger.subscriber # "" /\ s.name = trigger.subscriber)
    IN IF broker.name = trigger.broker /\ knativeService # Undefined
       THEN Append(edges,
              [id |-> broker.uid \o "_" \o knativeService.uid, type |-> EdgeTypeEventPubSubLink,
               source |-> broker.uid, target |-> knativeService.uid,
               data |-> [kind |-> "resources", obj |-> trigger.uid,
                         connections |-> <<broker.uid, knativeService.uid>>]])
       ELSE edges

\* getTriggerTopologyEdgeItems
GetTriggerTopologyEdgeItems(broker, res) ==
    ForEach(res.triggers, LAMBDA acc, t: TriggerEdgeStep(acc, broker, t, res), <<>>)

\* one subscription of getSubscriptionTopologyEdgeItems
SubscriptionEdgeStep(edges, resource, subRes, res) ==
    IF resource.name = subRes.channel /\ subRes.subscriber # ""
    THEN LET hits == SelectSeq(res.ksservices, LAMBDA s: s.name = subRes.subscriber)
         IN edges \o [i \in 1..Len(hits) |->
              [id |-> resource.uid \o "_" \o hits[i].uid, type |-> EdgeTypeEventPubSubLink,
               source |-> resource.uid, target |-> hits[i].uid,
               data |-> [kind |-> "resources", obj |-> subRes.uid,
                         connections |-> <<resource.uid, hits[i].uid>>]]]
    ELSE edges

\* getSubscriptionTopologyEdgeItems
GetSubscriptionTopologyEdgeItems(resource, res) ==
    ForEach(res.eventingsubscription,
            LAMBDA acc, s: SubscriptionEdgeStep(acc, resource, s, res), <<>>)

\* a traffic step that overwrites the percent of an edge it finds again
TrafficEdgeStepOverwrite(edges, uid, res, data) ==
    LET revisionObj == Find(data, LAMBDA rev: rev.name = res.revisionName)
        resUid == revisionObj.uid
        id == uid \o "_" \o resUid
        hits == {i \in 1..Len(edges) : edges[i].id = id}
    IN IF resUid = "" THEN edges
       ELSE IF hits # {}
            THEN LET revisionIndex == CHOOSE i \in hits : \A j \in hits : i <= j
                 IN [edges EXCEPT ![revisionIndex].data.percent = res.percent]
            ELSE Append(edges, [id |-> id, type |-> EdgeTypeTraffic, source |-> uid,
                                target |-> resUid,
                                data |-> [kind |-> "percent", percent |-> res.percent]])

\* one status.traffic entry of getTrafficTopologyEdgeItems: the revision is
\* found by name; an edge with the same id gets the percent added, otherwise
\* a new edge is pushed
TrafficEdgeStep(edges, uid, res, data) ==
    LET revisionObj == Find(data, LAMBDA rev: rev.name = res.revisionName)
        resUid == revisionObj.uid
        id == uid \o "_" \o resUid
        hits == {i \in 1..Len(edges) : edges[i].id = id}
    IN IF resUid = "" THEN edges
       ELSE IF hits # {}
            THEN LET revisionIndex == CHOOSE i \in hits : \A j \in hits : i <= j
                 IN [edges EXCEPT ![revisionIndex].data.percent = @ + res.percent]
            ELSE Append(edges, [id |-> id, type |-> EdgeTypeTraffic, source |-> uid,
                                target |-> resUid,
                                data |-> [kind |-> "percent", percent |-> res.percent]])

\* getTrafficTopologyEdgeItems
GetTrafficTopologyEdgeItems(resource, data) ==
    ForEach(resource.traffic,
            LAMBDA acc, t: TrafficEdgeStep(acc, resource.uid, t, data), <<>>)

\* a classification by owner references alone, whatever the kind
IsInternalResourceAnyKind(resource) == resource.owners # {}

\* isInternalResource
IsInternalResource(resource) ==
    resource.kind # EventingBrokerKind /\ resource.owners # {}

-----------------------------------------------------------------------------
(* Graph assembler: the body of the _.forEach of transformKnNodeData, one  *)
(* operator per case of the switch.                                        *)

EventSourceCase(model, res, rs) ==
    LET nodes1 == model.nodes \o GetKnativeTopologyNodeItems(res, NodeTypeEventSource, rs)
        edges1 == model.edges \o GetEventTopologyEdgeItems(res, rs.ksservices)
        sinkUri == res.sinkUri
        found == GetSinkTargetUid(nodes1, sinkUri)
        sinkTargetUid == IF found = "" THEN EncodeURIComponent(sinkUri) ELSE found
        nodes2 == IF sinkUri # <<>> /\ found = ""
                  THEN nodes1 \o GetSinkUriTopologyNodeItems(NodeTypeSinkUri, sinkTargetUid, sinkUri)
                  ELSE nodes1
        edges2 == IF sinkUri # <<>>
                  THEN edges1 \o GetSinkUriTopologyEdgeItems(res, sinkTargetUid)
                  ELSE edges1
        edges3 == IF ~IsInternalResource(res)
                  THEN edges2 \o GetEventTopologyEdgeItems(res, rs.channels)
                  ELSE edges2
        edges4 == edges3 \o GetEventTopologyEdgeItems(res, rs.brokers)
    IN [nodes |-> MergeGroup(GetTopologyGroupItems(res), nodes2), edges |-> edges4]

KnServiceCase(model, res, rs) ==
    LET nodes1 == model.nodes \o GetKnativeTopologyNodeItems(res, NodeTypeKnService, rs)
        edges1 == model.edges \o GetTrafficTopologyEdgeItems(res, rs.revisions)
    IN [nodes |-> MergeGroup(GetTopologyGroupItems(res), nodes1), edges |-> edges1]

\* the pub/sub case without the test for internal resources
PubSubCaseNoInternalCheck(model, res, rs) ==
    LET nodes1 == model.nodes \o GetKnativeTopologyNodeItems(res, NodeTypePubSub, rs)
        edges1 == model.edges \o
                    (IF res.kind = EventingBrokerKind
                     THEN GetTriggerTopologyEdgeItems(res, rs)
                     ELSE GetSubscriptionTopologyEdgeItems(res, rs))
    IN [nodes |-> MergeGroup(GetTopologyGroupItems(res), nodes1), edges |-> edges1]

PubSubCase(model, res, rs) ==
    IF IsInternalResource(res) THEN model
    ELSE LET nodes1 == model.nodes \o GetKnativeTopologyNodeItems(res, NodeTypePubSub, rs)
             edges1 == model.edges \o
                         (IF res.kind = EventingBrokerKind
                          THEN GetTriggerTopologyEdgeItems(res, rs)
                          ELSE GetSubscriptionTopologyEdgeItems(res, rs))
         IN [nodes |-> MergeGroup(GetTopologyGroupItems(res), nodes1), edges |-> edges1]

-----------------------------------------------------------------------------
(* Snapshots the assembler is run on.  uids are unique across a snapshot   *)
(* and names are unique within a category, as the API server keeps them.   *)

EmptyModel == [nodes |-> <<>>, edges |-> <<>>]

EmptyResources ==
    [ksservices |-> <<>>, configurations |-> <<>>, revisions |-> <<>>,
     eventsources |-> <<>>, brokers |-> <<>>, channels |-> <<>>,
     triggers |-> <<>>, eventingsubscription |-> <<>>]

Percents == {50, 100}
TrafficEntries == [revisionName : {"rev-a", "rev-b", "rev-x"}, percent : Percents]

\* "http://x", "http://y"
UriX == <<"h", "t", "t", "p", ":", "/", "/", "x">>
UriY == <<"h", "t", "t", "p", ":", "/", "/", "y">>

ServiceA == MkRes("Service", "s1", "svc-a", {}, "")
ServiceB == MkRes("Service", "s2", "svc-b", {}, "")

\* two services, their configurations and two revisions
KnServiceSnapshots ==
    { [EmptyResources EXCEPT
         !.ksservices = << [ServiceA EXCEPT !.traffic = t1, !.app = a1],
                           [ServiceB EXCEPT !.traffic = t2, !.app = "shop"] >>,
         !.configurations = << MkRes("Configuration", "c1", "cfg-a", {"s1"}, ""),
                               MkRes("Configuration", "c2", "cfg-b", {c2o}, "") >>,
         !.revisions = << MkRes("Revision", "r1", "rev-a", {r1o}, ""),
                          MkRes("Revision", "r2", "rev-b", r2o, "") >>]
      : t1 \in SeqsUpTo(TrafficEntries, MaxTraffic),
        t2 \in {<<>>, <<[revisionName |-> "rev-b", percent |-> 100]>>},
        a1 \in {"", "shop"},
        c2o \in {"s1", "s2"},
        r1o \in {"c1", "c2"},
        r2o \in {{"c1"}, {"c2"}, {}} }

SourceShapes ==
    [sinkUri : {<<>>, UriX, UriY}, sinkRef : {"", "svc-a", "chan-a", "default"},
     tag : {"plain", "owned"}]

EventSourceOf(i, shape) ==
    [MkRes("PingSource", "es" \o ToString(i), "src" \o ToString(i),
           IF shape.tag = "owned" THEN {"own1"} ELSE {},
           IF shape.tag = "owned" THEN "shop" ELSE "")
       EXCEPT !.sinkUri = shape.sinkUri, !.sinkRef = shape.sinkRef]

\* up to MaxSources event sources, two services, a channel and a broker
EventSourceSnapshots ==
    { [EmptyResources EXCEPT
         !.eventsources = [i \in 1..Len(shapes) |-> EventSourceOf(i, shapes[i])],
         !.ksservices = <<ServiceA, ServiceB>>,
         !.channels = << MkRes("Channel", "ch1", "chan-a", {}, "") >>,
         !.brokers = << MkRes("Broker", "b1", "default", {}, "") >>]
      : shapes \in SeqsUpTo(SourceShapes, MaxSources) }

TriggerShapes == [from : {"own", "other"}, subscriber : {"svc-a", "svc-b"}]
SubscriptionShapes == [from : {"own", "other"}, subscriber : {"svc-a"}]

TriggerOf(i, shape) ==
    [MkRes("Trigger", "t" \o ToString(i), "trigger" \o ToString(i), {}, "")
       EXCEPT !.broker = IF shape.from = "own" THEN "default" ELSE "other",
              !.subscriber = shape.subscriber]

SubscriptionOf(i, shape) ==
    [MkRes("Subscription", "sub" \o ToString(i), "subscription" \o ToString(i), {}, "")
       EXCEPT !.channel = IF shape.from = "own" THEN "chan-a" ELSE "other",
              !.subscriber = shape.subscriber]

\* a broker and a channel, up to MaxBindings triggers and subscriptions
PubSubSnapshots ==
    { [EmptyResources EXCEPT
         !.brokers = << MkRes("Broker", "b1", "default", bo, ba) >>,
         !.channels = << MkRes("Channel", "ch1", "chan-a", co, "shop") >>,
         !.ksservices = <<ServiceA, ServiceB>>,
         !.triggers = [i \in 1..Len(ts) |-> TriggerOf(i, ts[i])],
         !.eventingsubscription = [i \in 1..Len(ss) |-> SubscriptionOf(i, ss[i])]]
      : bo \in {{}, {"own1"}}, ba \in {"", "shop"}, co \in {{}, {"own1"}},
        ts \in SeqsUpTo(TriggerShapes, MaxBindings),
        ss \in SeqsUpTo(SubscriptionShapes, MaxBindings) }

\* the resources of interest handed to the assembler for a node type
ResourcesOfType(type, rs) ==
    CASE type = NodeTypeEventSource -> rs.eventsources
      [] type = NodeTypeKnService -> rs.ksservices
      [] type = NodeTypePubSub -> rs.brokers \o rs.channels
      [] OTHER -> rs.revisions

\* no function of the resolver / rollup builder has been applied
NoCall == fnCall = [fn |-> "none"] /\ fnResult = [value |-> "none"]

MutationOff ==
    /\ mop = "none" /\ msource = Undefined /\ mtarget = Undefined /\ mpc = "off"
    /\ apiOutcome = "none" /\ apiCalls = <<>> /\ notifications = <<>>
    /\ outcome = [state |-> "pending", value |-> "none"]

Init ==
    /\ \E type \in {NodeTypeEventSource, NodeTypeKnService, NodeTypePubSub, NodeTypeRevision} :
         /\ nodeType = type
         /\ resources \in (CASE type = NodeTypeEventSource -> EventSourceSnapshots
                             [] type = NodeTypeKnService -> KnServiceSnapshots
                             [] type = NodeTypePubSub -> PubSubSnapshots
                             [] OTHER -> {s \in KnServiceSnapshots :
                                            s.ksservices[1].traffic = <<>>})
         /\ knResourcesData = ResourcesOfType(type, resources)
    /\ pc = "call" /\ idx = 1 /\ run = 1
    /\ knDataModel = EmptyModel /\ firstModel = EmptyModel
    /\ MutationOff
    /\ NoCall

-----------------------------------------------------------------------------
(* transformKnNodeData as steps: the call, one step per element of the     *)
(* _.forEach, the return.                                                  *)

\* a call that goes on with the model left by the call before
CallKeepingModel ==
    /\ pc = "call"
    /\ pc' = "loop" /\ idx' = 1
    /\ UNCHANGED <<resources, nodeType, knResourcesData, knDataModel, run, firstModel>>
    /\ UNCHANGED <<mutVars, fnVars>>

\* const knDataModel: Model = { nodes: [], edges: [] }
Call ==
    /\ pc = "call"
    /\ knDataModel' = EmptyModel
    /\ pc' = "loop" /\ idx' = 1
    /\ UNCHANGED <<resources, nodeType, knResourcesData, run, firstModel>>
    /\ UNCHANGED <<mutVars, fnVars>>

Step(CaseOf(_, _, _)) ==
    /\ pc = "loop" /\ idx <= Len(knResourcesData)
    /\ knDataModel' = CaseOf(knDataModel, knResourcesData[idx], resources)
    /\ idx' = idx + 1
    /\ UNCHANGED <<resources, nodeType, knResourcesData, pc, run, firstModel>>
    /\ UNCHANGED <<mutVars, fnVars>>

StepEventSource == nodeType = NodeTypeEventSource /\ Step(EventSourceCase)

StepKnService == nodeType = NodeTypeKnService /\ Step(KnServiceCase)

StepPubSub == nodeType = NodeTypePubSub /\ Step(PubSubCase)

\* default: break
DefaultCase(model, res, rs) == model

StepDefault ==
    /\ nodeType \notin {NodeTypeEventSource, NodeTypeKnService, NodeTypePubSub}
    /\ Step(DefaultCase)

\* return knDataModel
Return ==
    /\ pc = "loop" /\ idx > Len(knResourcesData)
    /\ pc' = "done"
    /\ firstModel' = IF run = 1 THEN knDataModel ELSE firstModel
    /\ UNCHANGED <<resources, nodeType, knResourcesData, idx, knDataModel, run>>
    /\ UNCHANGED <<mutVars, fnVars>>

\* the caller builds the graph again from the same snapshot (every refresh does)
CallAgain ==
    /\ pc = "done" /\ run = 1
    /\ run' = 2 /\ pc' = "call"
    /\ UNCHANGED <<resources, nodeType, knResourcesData, idx, knDataModel, firstModel>>
    /\ UNCHANGED <<mutVars, fnVars>>

Next ==
    \/ Call
    \/ StepEventSource
    \/ StepKnService
    \/ StepPubSub
    \/ StepDefault
    \/ Return
    \/ CallAgain

Spec == Init /\ [][Next]_vars

-----------------------------------------------------------------------------
(* Mutation operations.  A topology Node is [id, resource]; MissingNode    *)
(* and Undefined stand for a null / undefined argument.                    *)

MissingNode == [id |-> "", resource |-> Undefined]

Pending == [state |-> "pending", value |-> "none"]
Rejected == [state |-> "rejected", value |-> "none"]

\* getResource(node): the resource a node carries
GetResource(node) == node.resource

\* createKnativeEventSourceSink without the check that source and target differ
CreateKnativeEventSourceSinkNoIdentityCheck(source, target) ==
    IF source = Undefined \/ target = Undefined
    THEN [rejected |-> TRUE, calls |-> <<>>]
    ELSE [rejected |-> FALSE,
          calls |-> << [verb |-> "update", kind |-> source.kind, uid |-> source.uid,
                        spec |-> IF target.nodeType = NodeTypeSinkUri
                                 THEN [uri |-> target.sinkUri]
                                 ELSE [ref |-> [kind |-> target.kind, name |-> target.name]]] >>]

\* createKnativeEventSourceSink up to the k8sUpdate call: rejects without a
\* call, or issues the update of the source with the new spec.sink
CreateKnativeEventSourceSink(source, target) ==
    IF source = Undefined \/ target = Undefined \/ source = target
    THEN [rejected |-> TRUE, calls |-> <<>>]
    ELSE [rejected |-> FALSE,
          calls |-> << [verb |-> "update", kind |-> source.kind, uid |-> source.uid,
                        spec |-> IF target.nodeType = NodeTypeSinkUri
                                 THEN [uri |-> target.sinkUri]
                                 ELSE [ref |-> [kind |-> target.kind, name |-> target.name]]] >>]

\* createSinkConnection up to the k8sUpdate call
CreateSinkConnection(source, target) ==
    IF source = MissingNode \/ target = MissingNode \/ source = target
    THEN [rejected |-> TRUE, calls |-> <<>>]
    ELSE CreateKnativeEventSourceSink(GetResource(source), GetResource(target))

\* createEventingPubSubSink up to the k8sUpdate call
CreateEventingPubSubSink(subObj, target) ==
    IF subObj = Undefined \/ target = Undefined
    THEN [rejected |-> TRUE, calls |-> <<>>]
    ELSE [rejected |-> FALSE,
          calls |-> << [verb |-> "update", kind |-> subObj.kind, uid |-> subObj.uid,
                        spec |-> [ref |-> [kind |-> target.kind, name |-> target.name]]] >>]

\* the k8sCreate call of createEventingTrigger
CreateEventingTrigger(broker, service, random) ==
    [verb |-> "create", kind |-> "Trigger",
     name |-> broker.name \o "-trigger-" \o random,
     spec |-> [broker |-> broker.name, subscriber |-> [kind |-> "Service", name |-> service.name]]]

\* the k8sCreate call of createEventingSubscription
CreateEventingSubscription(channel, service, random) ==
    [verb |-> "create", kind |-> "Subscription",
     name |-> channel.name \o "-subscription-" \o random,
     spec |-> [channel |-> [kind |-> channel.kind, name |-> channel.name],
               subscriber |-> [kind |-> "Service", name |-> service.name]]]

\* arguments the operations are called with
SinkUriObj == [MkRes("", "http%3A%2F%2Fx", "", {}, "")
                 EXCEPT !.sinkUri = UriX, !.nodeType = NodeTypeSinkUri]
PingSource == [MkRes("PingSource", "es1", "src1", {}, "") EXCEPT !.sinkRef = "svc-a"]
BrokerRes == MkRes("Broker", "b1", "default", {}, "")
ChannelRes == MkRes("Channel", "ch1", "chan-a", {}, "")
SubscriptionRes == [MkRes("Subscription", "sub1", "subscription1", {}, "")
                      EXCEPT !.channel = "chan-a", !.subscriber = "svc-a"]

MutationResources == {PingSource, ServiceA, ServiceB, SinkUriObj, SubscriptionRes}
MutationNodes ==
    {[id |-> r.uid, resource |-> r] : r \in MutationResources}
      \cup {[id |-> "n0", resource |-> Undefined]}
RandomChars == {"x7k2a", "q9f4z"}

MutationInit ==
    /\ mop = "none" /\ msource = Undefined /\ mtarget = Undefined /\ mpc = "idle"
    /\ apiOutcome = "none" /\ apiCalls = <<>> /\ notifications = <<>>
    /\ outcome = Pending
    /\ resources = EmptyResources /\ nodeType = "" /\ knResourcesData = <<>>
    /\ pc = "off" /\ idx = 1 /\ run = 1
    /\ knDataModel = EmptyModel /\ firstModel = EmptyModel
    /\ NoCall

\* a connect operation is called: it rejects at once or issues its update
InvokeUpdate(op, source, target, r) ==
    /\ mpc = "idle"
    /\ mop' = op /\ msource' = source /\ mtarget' = target
    /\ apiCalls' = apiCalls \o r.calls
    /\ outcome' = IF r.rejected THEN Rejected ELSE Pending
    /\ mpc' = IF r.rejected THEN "settled" ELSE "update"
    /\ UNCHANGED <<apiOutcome, notifications>>
    /\ UNCHANGED <<graphVars, fnVars>>

InvokeCreateSinkConnection ==
    \E source \in MutationNodes \cup {MissingNode},
       target \in MutationNodes \cup {MissingNode} :
        /\ mop = "none"
        /\ InvokeUpdate("createSinkConnection", source, target,
                        CreateSinkConnection(source, target))

InvokeCreateKnativeEventSourceSink ==
    \E source \in MutationResources \cup {Undefined},
       target \in MutationResources \cup {Undefined} :
        /\ mop = "none"
        /\ InvokeUpdate("createKnativeEventSourceSink", source, target,
                        CreateKnativeEventSourceSink(source, target))

InvokeCreateEventingPubSubSink ==
    \E subObj \in {SubscriptionRes, Undefined},
       target \in {ServiceA, ServiceB, Undefined} :
        /\ mop = "none"
        /\ InvokeUpdate("createEventingPubSubSink", subObj, target,
                        CreateEventingPubSubSink(subObj, target))

\* the k8sUpdate promise resolves: the operation resolves with the resource
UpdateResolves ==
    /\ mpc = "update"
    /\ apiOutcome' = "resolved"
    /\ outcome' = [state |-> "resolved", value |-> "resource"]
    /\ mpc' = "settled"
    /\ UNCHANGED <<mop, msource, mtarget, apiCalls, notifications>>
    /\ UNCHANGED <<graphVars, fnVars>>

\* a rejected update that is reported and swallowed as a rejected create is
UpdateRejectsReported ==
    /\ mpc = "update"
    /\ apiOutcome' = "rejected"
    /\ notifications' = Append(notifications,
           [title |-> "Error updating sink", showIcon |-> TRUE])
    /\ outcome' = [state |-> "resolved", value |-> "undefined"]
    /\ mpc' = "settled"
    /\ UNCHANGED <<mop, msource, mtarget, apiCalls>>
    /\ UNCHANGED <<graphVars, fnVars>>

\* the k8sUpdate promise rejects: the operation rejects, nothing is notified
UpdateRejects ==
    /\ mpc = "update"
    /\ apiOutcome' = "rejected"
    /\ outcome' = Rejected
    /\ mpc' = "settled"
    /\ UNCHANGED <<mop, msource, mtarget, apiCalls, notifications>>
    /\ UNCHANGED <<graphVars, fnVars>>

\* createTrigger / createSubscription is called on two nodes: the create is issued
InvokeCreate(op, source, target, call) ==
    /\ mpc = "idle"
    /\ mop' = op /\ msource' = source /\ mtarget' = target
    /\ apiCalls' = Append(apiCalls, call)
    /\ mpc' = "create"
    /\ UNCHANGED <<apiOutcome, notifications, outcome>>
    /\ UNCHANGED <<graphVars, fnVars>>

InvokeCreateTrigger ==
    \E target \in {n \in MutationNodes : n.resource.kind = "Service"},
       random \in RandomChars :
        LET source == [id |-> BrokerRes.uid, resource |-> BrokerRes]
        IN /\ mop = "none"
           /\ InvokeCreate("createTrigger", source, target,
                           CreateEventingTrigger(GetResource(source), GetResource(target), random))

InvokeCreateSubscription ==
    \E target \in {n \in MutationNodes : n.resource.kind = "Service"},
       random \in RandomChars :
        LET source == [id |-> ChannelRes.uid, resource |-> ChannelRes]
        IN /\ mop = "none"
           /\ InvokeCreate("createSubscription", source, target,
                           CreateEventingSubscription(GetResource(source), GetResource(target),
                                                      random))

\* the k8sCreate promise resolves: .catch is skipped, .then(() => null) runs
CreateResolves ==
    /\ mpc = "create"
    /\ apiOutcome' = "resolved"
    /\ outcome' = [state |-> "resolved", value |-> "null"]
    /\ mpc' = "settled"
    /\ UNCHANGED <<mop, msource, mtarget, apiCalls, notifications>>
    /\ UNCHANGED <<graphVars, fnVars>>

\* a rejection that no .catch intercepts
CreateRejectsUncaught ==
    /\ mpc = "create"
    /\ apiOutcome' = "rejected"
    /\ outcome' = Rejected
    /\ mpc' = "settled"
    /\ UNCHANGED <<mop, msource, mtarget, apiCalls, notifications>>
    /\ UNCHANGED <<graphVars, fnVars>>

\* the k8sCreate promise rejects: .catch calls errorModal and returns
\* nothing, .then(() => null) runs
CreateRejects ==
    /\ mpc = "create"
    /\ apiOutcome' = "rejected"
    /\ notifications' = Append(notifications,
           [title |-> IF mop = "createTrigger" THEN "Error creating trigger"
                      ELSE "Error creating subscription",
            showIcon |-> TRUE])
    /\ outcome' = [state |-> "resolved", value |-> "null"]
    /\ mpc' = "settled"
    /\ UNCHANGED <<mop, msource, mtarget, apiCalls>>
    /\ UNCHANGED <<graphVars, fnVars>>

MutationNext ==
    \/ InvokeCreateSinkConnection
    \/ InvokeCreateKnativeEventSourceSink
    \/ InvokeCreateEventingPubSubSink
    \/ UpdateResolves
    \/ UpdateRejects
    \/ InvokeCreateTrigger
    \/ InvokeCreateSubscription
    \/ CreateResolves
    \/ CreateRejects

MutationSpec == MutationInit /\ [][MutationNext]_vars

-----------------------------------------------------------------------------
(* Properties of the graph assembler *)

Nodes == knDataModel.nodes
Edges == knDataModel.edges
Returned == pc = "done"

\* number of elements of a sequence that pass a test
Count(list, Test(_)) == Len(SelectSeq(list, Test))

\* C1: the returned graph holds no two nodes with the same id, also when
\* status.traffic of a service names one revision in several entries.
NodeIdsUnique ==
    Returned => \A i, j \in 1..Len(Nodes) : Nodes[i].id = Nodes[j].id => i = j

\* C2: the returned graph holds no two edges with the same id
\* "<source>_<target>", also when two triggers bind one broker to one service
\* or two subscriptions bind one channel to one service.
EdgeIdsUnique ==
    Returned => \A i, j \in 1..Len(Edges) : Edges[i].id = Edges[j].id => i = j

\* the revision a traffic entry resolves to: the first one of that name
ResolvesTo(entry, rev) ==
    \E k \in 1..Len(resources.revisions) :
        /\ resources.revisions[k] = rev
        /\ rev.name = entry.revisionName
        /\ \A m \in 1..(k - 1) : resources.revisions[m].name # entry.revisionName

RECURSIVE SumPercent(_)
SumPercent(entries) ==
    IF entries = <<>> THEN 0 ELSE Head(entries).percent + SumPercent(Tail(entries))

\* C3: for every service and revision there is at most one traffic edge, it
\* exists exactly when some traffic entry resolves to the revision, and its
\* percent is the sum of the percents of those entries; an entry that names
\* no revision gives no edge (every traffic edge targets a revision).
TrafficEdgesMerged ==
    (Returned /\ nodeType = NodeTypeKnService) =>
        /\ \A s \in Range(knResourcesData), r \in Range(resources.revisions) :
             LET entries == SelectSeq(s.traffic, LAMBDA e: ResolvesTo(e, r))
                 found == SelectSeq(Edges, LAMBDA e: e.source = s.uid /\ e.target = r.uid)
             IN /\ Len(found) = IF entries = <<>> THEN 0 ELSE 1
                /\ \A i \in 1..Len(found) :
                     /\ found[i].data.percent = SumPercent(entries)
                     /\ found[i].type = EdgeTypeTraffic
        /\ \A i \in 1..Len(Edges) :
             \E r \in Range(resources.revisions) : Edges[i].target = r.uid

\* two entries of one revision were merged into one edge of 50 + 100
TrafficEdgesMergedWitness ==
    /\ Returned /\ nodeType = NodeTypeKnService
    /\ \E s \in Range(knResourcesData) :
         /\ Len(s.traffic) = 2
         /\ s.traffic[1].revisionName = s.traffic[2].revisionName
         /\ s.traffic[1].percent # s.traffic[2].percent
         /\ \E i \in 1..Len(Edges) : Edges[i].source = s.uid /\ Edges[i].data.percent = 150

\* C4: every id in the children of a Knative service node is the id of a
\* node of the same graph.
ChildrenInGraph ==
    \A i \in 1..Len(Nodes) :
        Nodes[i].type = NodeTypeKnService =>
            \A c \in Range(Nodes[i].children) : \E j \in 1..Len(Nodes) : Nodes[j].id = c

\* a returned service node that has a child, next to an owned revision that
\* is no child of it
ChildrenInGraphWitness ==
    /\ Returned
    /\ \E i \in 1..Len(Nodes) :
         /\ Nodes[i].type = NodeTypeKnService
         /\ Nodes[i].children # <<>>
         /\ \E s \in Range(knResourcesData) :
              /\ s.uid = Nodes[i].id
              /\ Len(ChildData(s, resources)) > Len(Nodes[i].children)

\* C5: after a run over event sources, every sink URI of an event source has
\* exactly one sink-uri node, every sink-uri node carries the URI of some
\* event source, and every event source with a URI has exactly one
\* event-source edge to the node of its URI.
SinkUriDedup ==
    (Returned /\ nodeType = NodeTypeEventSource) =>
        /\ \A es \in Range(knResourcesData) :
             es.sinkUri # <<>> =>
                /\ Count(Nodes, LAMBDA n: n.type = NodeTypeSinkUri /\ n.sinkUri = es.sinkUri) = 1
                /\ \A i \in 1..Len(Nodes) :
                     (Nodes[i].type = NodeTypeSinkUri /\ Nodes[i].sinkUri = es.sinkUri) =>
                        Count(Edges, LAMBDA e: /\ e.type = EdgeTypeEventSource
                                               /\ e.source = es.uid
                                               /\ e.target = Nodes[i].id) = 1
        /\ \A i \in 1..Len(Nodes) :
             Nodes[i].type = NodeTypeSinkUri =>
                \E es \in Range(knResourcesData) : es.sinkUri = Nodes[i].sinkUri

\* two event sources of one URI, and a third URI-less or other one before
\* or after them, were processed
SinkUriDedupWitness ==
    /\ Returned /\ nodeType = NodeTypeEventSource
    /\ \E i, j \in 1..Len(knResourcesData) :
         /\ i < j
         /\ knResourcesData[i].sinkUri # <<>>
         /\ knResourcesData[i].sinkUri = knResourcesData[j].sinkUri
    /\ Count(Nodes, LAMBDA n: n.type = NodeTypeSinkUri) = 1
    /\ Count(Edges, LAMBDA e: e.type = EdgeTypeEventSource) >= 2

\* the revisions of a service's configuration that its traffic names
ExpectedRevisions(s) ==
    LET cfg == GetOwnedResources(s, resources.configurations)[1]
    IN {r \in Range(resources.revisions) :
          /\ cfg.uid \in r.owners
          /\ \E k \in 1..Len(s.traffic) : s.traffic[k].revisionName = r.name}

\* C6: for a service with one owned configuration the run yields exactly one
\* revision node per revision owned by the configuration and named in
\* traffic, the service node with exactly those uids as children, and one
\* traffic edge "S.uid_rev.uid" per such revision.
ServiceBuildExact ==
    (Returned /\ nodeType = NodeTypeKnService) =>
        \A s \in Range(knResourcesData) :
            Len(GetOwnedResources(s, resources.configurations)) = 1 =>
                /\ \A r \in ExpectedRevisions(s) :
                     /\ Count(Nodes, LAMBDA n: n.id = r.uid) = 1
                     /\ Count(Edges, LAMBDA e: e.id = s.uid \o "_" \o r.uid) = 1
                /\ \A i \in 1..Len(Nodes) :
                     Nodes[i].id = s.uid =>
                        /\ Range(Nodes[i].children) = {r.uid : r \in ExpectedRevisions(s)}
                        /\ Len(Nodes[i].children) = Cardinality(ExpectedRevisions(s))
                /\ Count(Nodes, LAMBDA n: n.id = s.uid) = 1

\* the percent-escaped text of the URIs of the snapshots
Escaped(uri) == IF uri = UriX THEN "http%3A%2F%2Fx" ELSE "http%3A%2F%2Fy"

\* C7: an event source with a sink URI and no matching target resource
\* yields a sink-uri node whose id is the escaped URI and exactly one edge,
\* of type event-source-link, from its uid to that id, with the id
\* "<uid>_<escaped uri>".
SinkUriNodeEscaped ==
    (Returned /\ nodeType = NodeTypeEventSource) =>
        \A es \in Range(knResourcesData) :
            (/\ es.sinkUri # <<>>
             /\ \A r \in Range(resources.ksservices \o resources.channels \o resources.brokers) :
                  r.name # es.sinkRef) =>
                /\ \E i \in 1..Len(Nodes) :
                     /\ Nodes[i].id = Escaped(es.sinkUri)
                     /\ Nodes[i].type = NodeTypeSinkUri
                /\ Count(Edges, LAMBDA e: e.source = es.uid) = 1
                /\ \A i \in 1..Len(Edges) :
                     Edges[i].source = es.uid =>
                        /\ Edges[i].type = EdgeTypeEventSource
                        /\ Edges[i].target = Escaped(es.sinkUri)
                        /\ Edges[i].id = es.uid \o "_" \o Escaped(es.sinkUri)

\* the node "http%3A%2F%2Fx" and the edge "es1_http%3A%2F%2Fx" were made
SinkUriNodeEscapedWitness ==
    /\ Returned /\ nodeType = NodeTypeEventSource
    /\ \E es \in Range(knResourcesData) : es.sinkUri = UriX /\ es.sinkRef = ""
    /\ \E i \in 1..Len(Nodes) : Nodes[i].id = "http%3A%2F%2Fx"
    /\ \E i \in 1..Len(Edges) : Edges[i].id = "es1_http%3A%2F%2Fx"

IdsOf(list) == [i \in 1..Len(list) |-> list[i].id]
DataOf(list) == [i \in 1..Len(list) |-> <<list[i].id, list[i].data>>]

-----------------------------------------------------------------------------
(* Properties of the mutation operations *)

\* C9: createTrigger / createSubscription issue exactly one create call; if
\* it rejects, errorModal is called exactly once and the returned promise
\* still resolves with an empty (null) result; if it resolves, nothing is
\* notified.
CreateFireAndReport ==
    mop \in {"createTrigger", "createSubscription"} =>
        /\ Len(apiCalls) = 1 /\ apiCalls[1].verb = "create"
        /\ mpc = "create" => (notifications = <<>> /\ outcome = Pending)
        /\ mpc = "settled" =>
             /\ outcome = [state |-> "resolved", value |-> "null"]
             /\ Len(notifications) = IF apiOutcome = "rejected" THEN 1 ELSE 0

\* a createTrigger whose create call was rejected has settled
CreateFireAndReportWitness ==
    /\ mop = "createTrigger" /\ mpc = "settled" /\ apiOutcome = "rejected"
    /\ Len(notifications) = 1

\* C10: createSinkConnection / createKnativeEventSourceSink reject when the
\* source is missing, the target is missing or both are the same, and then
\* no update call is issued.
InvalidSinkInputRejected ==
    /\ (/\ mop = "createSinkConnection"
        /\ (msource = MissingNode \/ mtarget = MissingNode \/ msource = mtarget)) =>
            (outcome.state = "rejected" /\ apiCalls = <<>> /\ mpc = "settled")
    /\ (/\ mop = "createKnativeEventSourceSink"
        /\ (msource = Undefined \/ mtarget = Undefined \/ msource = mtarget)) =>
            (outcome.state = "rejected" /\ apiCalls = <<>> /\ mpc = "settled")

\* createKnativeEventSourceSink was called with one resource as source and target
InvalidSinkInputRejectedWitness ==
    /\ mop = "createKnativeEventSourceSink"
    /\ msource = mtarget /\ msource # Undefined
    /\ outcome.state = "rejected"

\* C11: createKnativeEventSourceSink / createEventingPubSubSink called with
\* valid input issue exactly one update call, reject exactly when that call
\* rejects, and notify nothing.
ConnectFollowsUpdate ==
    (\/ /\ mop = "createKnativeEventSourceSink"
        /\ msource # Undefined /\ mtarget # Undefined /\ msource # mtarget
     \/ /\ mop = "createEventingPubSubSink"
        /\ msource # Undefined /\ mtarget # Undefined) =>
        /\ Len(apiCalls) = 1 /\ apiCalls[1].verb = "update"
        /\ apiCalls[1].uid = msource.uid
        /\ notifications = <<>>
        /\ mpc \in {"update", "settled"}
        /\ mpc = "update" => outcome = Pending
        /\ mpc = "settled" =>
             /\ apiOutcome \in {"resolved", "rejected"}
             /\ outcome.state = IF apiOutcome = "rejected" THEN "rejected" ELSE "resolved"

\* a createEventingPubSubSink whose update call was rejected has rejected
ConnectFollowsUpdateWitness ==
    /\ mop = "createEventingPubSubSink"
    /\ msource = SubscriptionRes /\ mtarget = ServiceB
    /\ mpc = "settled" /\ apiOutcome = "rejected" /\ outcome.state = "rejected"

-----------------------------------------------------------------------------
(* Resource resolver and rollup builder: pure functions, each applied once *)
(* to arguments drawn from bounded sets.                                   *)

\* getParentResource returning the last matching candidate
GetParentResourceLast(resource, candidates) ==
    LET hits == SelectSeq(candidates, LAMBDA c: c.uid \in resource.owners)
    IN IF hits = <<>> THEN Undefined ELSE hits[Len(hits)]

\* getParentResource: the first candidate whose uid is among the uids of
\* the resource's ownerReferences, or undefined
GetParentResource(resource, candidates) ==
    LET hits == SelectSeq(candidates, LAMBDA c: c.uid \in resource.owners)
    IN IF hits = <<>> THEN Undefined ELSE hits[1]

\* filterBasedOnActiveApplication(data, application): all of data when no
\* application is active, else the items labelled part-of the application
FilterBasedOnActiveApplication(data, application) ==
    IF application = "" THEN data
    ELSE SelectSeq(data, LAMBDA item: item.app = application)

\* filterRevisionsByActiveApplication without the traffic test
FilterRevisionsByActiveApplicationNoTraffic(revisions, rs, application) ==
    SelectSeq(revisions,
        LAMBDA revision:
            LET configuration == GetParentResource(revision, rs.configurations)
                service == GetParentResource(configuration, rs.ksservices)
                isServicePartofGroup ==
                    Len(FilterBasedOnActiveApplication(<<service>>, application)) > 0
            IN service # Undefined /\ isServicePartofGroup)

\* filterRevisionsByActiveApplication: the forEach pushes a revision when
\* hasTraffic and isServicePartofGroup
FilterRevisionsByActiveApplication(revisions, rs, application) ==
    SelectSeq(revisions,
        LAMBDA revision:
            LET configuration == GetParentResource(revision, rs.configurations)
                service == GetParentResource(configuration, rs.ksservices)
                hasTraffic ==
                    /\ service # Undefined
                    /\ Find(service.traffic,
                            LAMBDA t: t.revisionName = revision.name) # Undefined
                isServicePartofGroup ==
                    Len(FilterBasedOnActiveApplication(<<service>>, application)) > 0
            IN hasTraffic /\ isServicePartofGroup)

\* the uids of a list of resources
Uids(list) == [i \in 1..Len(list) |-> list[i].uid]

\* { ...a, ...b }: the keys of both, b winning on a key of both
Merge(a, b) ==
    [k \in (DOMAIN a) \cup (DOMAIN b) |-> IF k \in DOMAIN b THEN b[k] ELSE a[k]]

\* the object an enricher returns for (resource, resources): its keys, each
\* with a value naming the enricher and the resource it was given
ApplyUtil(util, resource, rs) ==
    [k \in util.keys |-> <<util.name, resource.uid>>]

\* one step of utils.reduce((acc, util) => ({...acc, ...util(resource, resources)}))
UtilStep(acc, util, resource, rs) ==
    [item  |-> Merge(acc.item, ApplyUtil(util, resource, rs)),
     calls |-> Append(acc.calls, [util |-> util.name, resource |-> resource,
                                  resources |-> rs])]

\* the pods of the replica sets of a deployment
PodsOf(deployment) == <<"pod-" \o deployment.uid>>

\* getBuildConfigsForResource
BuildConfigsOf(resource) == <<"bc-" \o resource.uid>>

\* the reduce of getKnativeServiceData over the revisions: the pods of the
\* first deployment owned by each revision
RECURSIVE AllPods(_, _)
AllPods(revisions, rs) ==
    IF revisions = <<>> THEN <<>>
    ELSE LET associatedDeployment == GetOwnedResources(Head(revisions), rs.deployments)
         IN (IF associatedDeployment = <<>> THEN <<>> ELSE PodsOf(associatedDeployment[1]))
            \o AllPods(Tail(revisions), rs)

\* getKnativeServiceData: the overview item of a Knative service, then the
\* enrichers in list order
GetKnativeServiceData(resource, rs, utils) ==
    LET configurations == GetOwnedResources(resource, rs.configurations)
        revisions == IF configurations # <<>>
                     THEN GetOwnedResources(configurations[1], rs.revisions)
                     ELSE <<>>
        overviewItem == [configurations |-> Uids(configurations),
                         revisions      |-> Uids(revisions),
                         ksroutes       |-> Uids(GetOwnedResources(resource, rs.ksroutes)),
                         buildConfigs   |-> BuildConfigsOf(resource),
                         pods           |-> AllPods(revisions, rs)]
    IN ForEach(utils, LAMBDA acc, util: UtilStep(acc, util, resource, rs),
               [item |-> overviewItem, calls |-> <<>>])

\* createKnativeDeploymentItems with the defaults of the second branch
\* spread after the Knative service data
CreateKnativeDeploymentItemsDefaultsLast(resource, rs, utils) ==
    LET associatedDeployment == GetOwnedResources(resource, rs.deployments)
    IN IF associatedDeployment # <<>>
       THEN LET depObj == associatedDeployment[1]
                overviewItems == [obj |-> <<resource.uid>>,
                                  alerts |-> <<>>,
                                  buildConfigs |-> BuildConfigsOf(depObj),
                                  current |-> <<"rs-" \o depObj.uid>>,
                                  isRollingOut |-> <<"false">>,
                                  previous |-> <<>>,
                                  pods |-> PodsOf(depObj),
                                  routes |-> <<>>,
                                  services |-> <<>>,
                                  associatedDeployment |-> <<depObj.uid>>]
            IN ForEach(utils, LAMBDA acc, util: UtilStep(acc, util, resource, rs),
                       [item |-> overviewItems, calls |-> <<>>])
       ELSE LET knResources == GetKnativeServiceData(resource, rs, utils)
            IN [item  |-> Merge(knResources.item,
                                [obj |-> <<resource.uid>>, buildConfigs |-> <<>>,
                                 routes |-> <<>>, services |-> <<>>]),
                calls |-> knResources.calls]

\* createKnativeDeploymentItems: the rollup of an owned deployment when one
\* is found, else the Knative service data over the defaults obj,
\* buildConfigs, routes and services; the enrichers applied in either branch
CreateKnativeDeploymentItems(resource, rs, utils) ==
    LET associatedDeployment == GetOwnedResources(resource, rs.deployments)
    IN IF associatedDeployment # <<>>
       THEN LET depObj == associatedDeployment[1]
                overviewItems == [obj |-> <<resource.uid>>,
                                  alerts |-> <<>>,
                                  buildConfigs |-> BuildConfigsOf(depObj),
                                  current |-> <<"rs-" \o depObj.uid>>,
                                  isRollingOut |-> <<"false">>,
                                  previous |-> <<>>,
                                  pods |-> PodsOf(depObj),
                                  routes |-> <<>>,
                                  services |-> <<>>,
                                  associatedDeployment |-> <<depObj.uid>>]
            IN ForEach(utils, LAMBDA acc, util: UtilStep(acc, util, resource, rs),
                       [item |-> overviewItems, calls |-> <<>>])
       ELSE LET knResources == GetKnativeServiceData(resource, rs, utils)
            IN [item  |-> Merge([obj |-> <<resource.uid>>, buildConfigs |-> <<>>,
                                 routes |-> <<>>, services |-> <<>>],
                                knResources.item),
                calls |-> knResources.calls]

FunctionInit ==
    /\ NoCall
    /\ MutationOff
    /\ resources = EmptyResources /\ nodeType = "" /\ knResourcesData = <<>>
    /\ pc = "off" /\ idx = 1 /\ run = 1
    /\ knDataModel = EmptyModel /\ firstModel = EmptyModel

\* resources of several kinds with no, one or two owner references
InternalInputs ==
    {MkRes(kind, "u1", "res1", owners, "") :
        kind \in {"Broker", "Channel", "PingSource", "Service"},
        owners \in {{}, {"own1"}, {"own1", "own2"}}}

ApplyIsInternalResource ==
    /\ fnCall.fn = "none"
    /\ \E r \in InternalInputs :
         /\ fnCall' = [fn |-> "isInternalResource", resource |-> r]
         /\ fnResult' = [value |-> IsInternalResource(r)]
    /\ UNCHANGED <<graphVars, mutVars>>

ParentCandidates ==
    {MkRes("Configuration", uid, "cfg-" \o uid, {}, "") : uid \in {"c1", "c2", "c3"}}

ApplyGetParentResource ==
    /\ fnCall.fn = "none"
    /\ \E owners \in SUBSET {"c1", "c2", "zz"},
          candidates \in SeqsUpTo(ParentCandidates, MaxCandidates) :
         LET r == MkRes("Revision", "r1", "rev-a", owners, "")
         IN /\ fnCall' = [fn |-> "getParentResource", resource |-> r,
                          candidates |-> candidates]
            /\ fnResult' = [value |-> GetParentResource(r, candidates)]
    /\ UNCHANGED <<graphVars, mutVars>>

\* the revision lists handed to filterRevisionsByActiveApplication
RevisionLists(rs) ==
    {rs.revisions, <<rs.revisions[2], rs.revisions[1]>>, <<rs.revisions[2]>>}

ApplyFilterRevisionsByActiveApplication ==
    /\ fnCall.fn = "none"
    /\ \E snapshot \in KnServiceSnapshots, application \in {"", "shop", "other"},
          known \in 1..2 :
         LET rs == [snapshot EXCEPT !.ksservices = SubSeq(snapshot.ksservices, 1, known)]
         IN \E revisions \in RevisionLists(rs) :
              /\ fnCall' = [fn |-> "filterRevisionsByActiveApplication",
                            revisions |-> revisions, resources |-> rs,
                            application |-> application]
              /\ fnResult' = [value |->
                                FilterRevisionsByActiveApplication(revisions, rs, application)]
    /\ UNCHANGED <<graphVars, mutVars>>

\* the keys an enricher may set: two of the base keys and one of its own
UtilKeys == {"obj", "pods", "extra"}

\* up to MaxEnrichers enrichers, named by their place in the list
UtilLists ==
    { [i \in 1..Len(keys) |-> [name |-> "util" \o ToString(i), keys |-> keys[i]]]
      : keys \in SeqsUpTo(SUBSET UtilKeys, MaxEnrichers) }

\* a service with its configuration and revision, and a deployment that is
\* owned by the service, by the revision or by neither
RollupSnapshots ==
    { [configurations |-> << MkRes("Configuration", "c1", "cfg-a", {"s1"}, "") >>,
       revisions      |-> << MkRes("Revision", "r1", "rev-a", {"c1"}, "") >>,
       ksroutes       |-> << MkRes("Route", "rt1", "route-a", {"s1"}, "") >>,
       deployments    |-> << MkRes("Deployment", "d1", "dep-a", {owner}, "") >>]
      : owner \in {"s1", "r1", "zz"} }

ApplyCreateKnativeDeploymentItems ==
    /\ fnCall.fn = "none"
    /\ \E resource \in {ServiceA, MkRes("Revision", "r1", "rev-a", {"c1"}, "")},
          rs \in RollupSnapshots, utils \in UtilLists :
         /\ fnCall' = [fn |-> "createKnativeDeploymentItems", resource |-> resource,
                       resources |-> rs, utils |-> utils]
         /\ fnResult' = [value |-> CreateKnativeDeploymentItems(resource, rs, utils)]
    /\ UNCHANGED <<graphVars, mutVars>>

FunctionNext ==
    \/ ApplyIsInternalResource
    \/ ApplyGetParentResource
    \/ ApplyFilterRevisionsByActiveApplication
    \/ ApplyCreateKnativeDeploymentItems

FunctionSpec == FunctionInit /\ [][FunctionNext]_vars

\* C12: isInternalResource is true exactly for a resource that is not of
\* the broker kind and carries owner references: false for a broker with
\* owner references, true for a non-broker with owner references, false
\* for a non-broker without owner references.
InternalResourceTable ==
    fnCall.fn = "isInternalResource" =>
        LET r == fnCall.resource
        IN /\ (r.kind = "Broker" /\ r.owners # {}) => fnResult.value = FALSE
           /\ (r.kind # "Broker" /\ r.owners # {}) => fnResult.value = TRUE
           /\ (r.kind # "Broker" /\ r.owners = {}) => fnResult.value = FALSE
           /\ fnResult.value = (r.kind # "Broker" /\ r.owners # {})

\* isInternalResource answered false for a broker that carries owner references
InternalResourceTableWitness ==
    /\ fnCall.fn = "isInternalResource"
    /\ fnCall.resource.kind = "Broker" /\ fnCall.resource.owners # {}
    /\ fnResult.value = FALSE

\* C14: getParentResource returns the first candidate, in the order of the
\* candidates, whose uid is among the resource's owner references, and
\* nothing when no candidate matches; for a resource without owner
\* references it returns nothing whatever the candidates.
ParentIsFirstMatch ==
    fnCall.fn = "getParentResource" =>
        LET r == fnCall.resource
            cs == fnCall.candidates
            matches == {k \in 1..Len(cs) : cs[k].uid \in r.owners}
        IN /\ matches = {} => fnResult.value = Undefined
           /\ matches # {} =>
                \E k \in matches :
                    /\ fnResult.value = cs[k]
                    /\ \A m \in matches : k <= m
           /\ r.owners = {} => fnResult.value = Undefined

\* of two matching candidates the first was returned
ParentIsFirstMatchWitness ==
    /\ fnCall.fn = "getParentResource"
    /\ Len(fnCall.candidates) >= 2
    /\ fnCall.candidates[1].uid \in fnCall.resource.owners
    /\ fnCall.candidates[2].uid \in fnCall.resource.owners
    /\ fnCall.candidates[1] # fnCall.candidates[2]
    /\ fnResult.value = fnCall.candidates[1]

\* C13: in a pub/sub run a resource that is not a broker and carries owner
\* references gives no node, no edge and no group membership, while every
\* broker gets its node, also one that carries owner references.
InternalPubSubOmitted ==
    (Returned /\ nodeType = NodeTypePubSub) =>
        \A r \in Range(knResourcesData) :
            /\ (r.kind # "Broker" /\ r.owners # {}) =>
                 /\ \A i \in 1..Len(Nodes) :
                      Nodes[i].id # r.uid /\ r.uid \notin Range(Nodes[i].children)
                 /\ \A i \in 1..Len(Edges) :
                      Edges[i].source # r.uid /\ Edges[i].target # r.uid
            /\ r.kind = "Broker" =>
                 Count(Nodes, LAMBDA n: n.id = r.uid /\ n.type = NodeTypePubSub) = 1

\* an owned channel with a subscription to a service was left out and an
\* owned broker was emitted
InternalPubSubOmittedWitness ==
    /\ Returned /\ nodeType = NodeTypePubSub
    /\ \E r \in Range(knResourcesData) :
         /\ r.kind = "Channel" /\ r.owners # {}
         /\ \E sub \in Range(resources.eventingsubscription) :
              sub.channel = r.name /\ sub.subscriber = "svc-a"
    /\ \E r \in Range(knResourcesData) :
         /\ r.kind = "Broker" /\ r.owners # {}
         /\ \E i \in 1..Len(Nodes) : Nodes[i].id = r.uid

\* C15: filterRevisionsByActiveApplication keeps a revision exactly when
\* the service owning the configuration that owns the revision, each the
\* first match of its list, names the revision in its traffic and passes
\* the active-application filter; a revision without such a configuration
\* or service is dropped; the kept revisions are in the order of the input.
RevisionKeptIffTrafficAndGroup ==
    fnCall.fn = "filterRevisionsByActiveApplication" =>
        LET cs == fnCall.resources.configurations
            ss == fnCall.resources.ksservices
            application == fnCall.application
            Keep(r) ==
                \E ci \in 1..Len(cs) :
                    /\ cs[ci].uid \in r.owners
                    /\ \A j \in 1..(ci - 1) : cs[j].uid \notin r.owners
                    /\ \E si \in 1..Len(ss) :
                         /\ ss[si].uid \in cs[ci].owners
                         /\ \A j \in 1..(si - 1) : ss[j].uid \notin cs[ci].owners
                         /\ \E t \in 1..Len(ss[si].traffic) :
                                ss[si].traffic[t].revisionName = r.name
                         /\ application = "" \/ ss[si].app = application
        IN fnResult.value = SelectSeq(fnCall.revisions, Keep)

\* with an application active, of two revisions that both have traffic the
\* one whose service is outside the application was dropped and the other,
\* second in the input, was kept
RevisionKeptIffTrafficAndGroupWitness ==
    /\ fnCall.fn = "filterRevisionsByActiveApplication"
    /\ fnCall.application = "shop"
    /\ Len(fnCall.revisions) = 2
    /\ fnResult.value = <<fnCall.revisions[2]>>
    /\ \E s \in Range(fnCall.resources.ksservices) :
         /\ s.app # "shop"
         /\ \E t \in Range(s.traffic) : t.revisionName = fnCall.revisions[1].name

\* C16: in either branch of createKnativeDeploymentItems every enricher is
\* called exactly once, in list order, with the resource and the snapshot,
\* and every key that some enricher sets holds, in the resulting item, the
\* value of the last enricher that sets it, also when the base item or the
\* defaults set the key.
EnrichersInOrderLastWins ==
    fnCall.fn = "createKnativeDeploymentItems" =>
        LET utils == fnCall.utils
            item == fnResult.value.item
        IN /\ fnResult.value.calls =
                [i \in 1..Len(utils) |-> [util |-> utils[i].name,
                                          resource |-> fnCall.resource,
                                          resources |-> fnCall.resources]]
           /\ \A i \in 1..Len(utils) : \A k \in utils[i].keys :
                (\A j \in (i + 1)..Len(utils) : k \notin utils[j].keys) =>
                    /\ k \in DOMAIN item
                    /\ item[k] = <<utils[i].name, fnCall.resource.uid>>

\* without an owned deployment, two enrichers both set obj and pods, and the
\* item holds the second enricher's values
EnrichersInOrderLastWinsWitness ==
    /\ fnCall.fn = "createKnativeDeploymentItems"
    /\ GetOwnedResources(fnCall.resource, fnCall.resources.deployments) = <<>>
    /\ Len(fnCall.utils) = 2
    /\ {"obj", "pods"} \subseteq fnCall.utils[1].keys \cap fnCall.utils[2].keys
    /\ fnResult.value.item.obj = <<"util2", fnCall.resource.uid>>
    /\ fnResult.value.item.pods = <<"util2", fnCall.resource.uid>>
    /\ Len(fnResult.value.calls) = 2

\* C17: in a run over the services every traffic edge starts at the node of
\* a service of the graph and ends at a revision node of the same graph
\* that is among the children of that service node.
NoDanglingTrafficEdge ==
    (Returned /\ nodeType = NodeTypeKnService) =>
        \A i \in 1..Len(Edges) :
            Edges[i].type = EdgeTypeTraffic =>
                /\ \E g \in 1..Len(Nodes) :
                     /\ Nodes[g].type = NodeTypeKnService
                     /\ Nodes[g].id = Edges[i].source
                     /\ Edges[i].target \in Range(Nodes[g].children)
                /\ \E n \in 1..Len(Nodes) :
                     /\ Nodes[n].type = NodeTypeRevision
                     /\ Nodes[n].id = Edges[i].target

====
